---- MODULE Spec2Model ----
(***************************************************************************)
(* Build cache and incremental build driver of chol's builder.h.           *)
(*                                                                         *)
(* Strings are sequences of one-character strings; a C buffer is such a    *)
(* sequence indexed from 0 through At.  int64_t is modelled as a two's     *)
(* complement integer of IntBits bits and PATH_MAX is scaled down, so that *)
(* the overflow and buffer cases are reached inside TLC's integers.        *)
(***************************************************************************)
EXTENDS Integers, Sequences, FiniteSets, TLC

VARIABLES
    c,        \* build_cache_t: [buf: sequence of [path, mtime], size]; count = Len(buf)
    file,     \* the file BUILD_CACHE_PATH: [exists, data (its characters)]
    disk,     \* the source tree of a build: what stat() answers for each path
    call,     \* the last build_cache_* call that returned: its arguments and result
    seen,     \* history: the paths set or loaded into the store c
    pure,     \* history: c was built from an empty store by build_cache_set calls only
    lastSet,  \* history (while pure): the timestamp of the latest set of each path
    pc,          \* where a build_app invocation stands; "exit" = the process was terminated
    src_i,       \* build_app: the index i into config.srcs
    ent_k,       \* build_app: the position of the directory iteration
    rebuild_all, \* build_app: the local rebuild_all
    o_files,     \* build_app: o_files[0 .. o_files_count - 1]
    log,         \* history: the commands run and the cache writes of the invocation
    c0,          \* history: the store as build_cache_load left it at the start
    darr,        \* darray_t, with its allocation and the history of the elements added
    heap         \* the heap and the pointer variable handed to SFREE and SREALLOC

libVars == <<darr, heap>>
apiVars == <<call, seen, pure, lastSet, libVars>>
appVars == <<pc, src_i, ent_k, rebuild_all, o_files, log, c0, libVars>>
vars == <<c, file, disk, call, seen, pure, lastSet,
          pc, src_i, ent_k, rebuild_all, o_files, log, c0, darr, heap>>

----------------------------------------------------------------------------
(* Bounds of the model *)

\* width of int64_t in the model (src/builder.h:132 has 64)
IntBits == 4
\* size of the line buffer in the model (src/log.h:380 has 1024)
PATH_MAX == 16
\* the most entries build_cache_set may append
MaxCount == 2

----------------------------------------------------------------------------
(* Characters and integers *)

QUOTE == "\""
NL    == "\n"
SP    == " "
NUL   == "NUL"

RECURSIVE Pow2(_)
Pow2(n) == IF n = 0 THEN 1 ELSE 2 * Pow2(n - 1)

UMOD    == Pow2(IntBits)
INT_MAX == Pow2(IntBits - 1) - 1
INT_MIN == 0 - Pow2(IntBits - 1)

\* (int64_t) of an unsigned value, (unsigned long long) of a signed one
ToSigned(u)   == IF u > INT_MAX THEN u - UMOD ELSE u
ToUnsigned(m) == m % UMOD

Digits == <<"0", "1", "2", "3", "4", "5", "6", "7", "8", "9">>
IsDigit(ch)  == \E d \in 1..10 : Digits[d] = ch
DigitVal(ch) == (CHOOSE d \in 1..10 : Digits[d] = ch) - 1
IsSpace(ch)  == ch \in {SP, NL, "\t"}

Min(a, b) == IF a < b THEN a ELSE b

\* buf[i] of a C array
At(buf, i) == buf[i + 1]

\* a buffer of n NUL characters: char line[PATH_MAX] = {0}
Zeros(n) == [i \in 1..n |-> NUL]

\* strlen: the index of the first NUL
Strlen(buf) == CHOOSE i \in 0..(Len(buf) - 1) :
                   /\ At(buf, i) = NUL
                   /\ \A j \in 0..(i - 1) : At(buf, j) # NUL

\* printf("%llu", u)
RECURSIVE FormatLLU(_)
FormatLLU(u) ==
    IF u < 10 THEN <<Digits[u + 1]>>
    ELSE FormatLLU(u \div 10) \o <<Digits[(u % 10) + 1]>>

\* The digit loop of atoll.  A result that does not fit is undefined behaviour:
\* ovf = "saturate" is strtoll's clamp, ovf = "wrap" is the two's complement wrap.
RECURSIVE AtollDigits(_, _, _, _)
AtollDigits(buf, i, acc, ovf) ==
    IF i < Len(buf) /\ IsDigit(At(buf, i))
    THEN LET next == acc * 10 + DigitVal(At(buf, i))
         IN  AtollDigits(buf, i + 1,
                         IF ovf = "wrap" THEN next % UMOD ELSE Min(next, UMOD), ovf)
    ELSE acc

RECURSIVE SkipSpace(_, _)
SkipSpace(buf, i) ==
    IF i < Len(buf) /\ IsSpace(At(buf, i)) THEN SkipSpace(buf, i + 1) ELSE i

\* atoll(buf + start).  A start outside the array reads memory that is not the
\* buffer: the result is then ub.oob, any value.
atoll(buf, start, ub) ==
    IF start >= Len(buf) THEN ub.oob
    ELSE LET i   == SkipSpace(buf, start)
             neg == i < Len(buf) /\ At(buf, i) = "-"
             j   == IF i < Len(buf) /\ At(buf, i) \in {"-", "+"} THEN i + 1 ELSE i
             v   == AtollDigits(buf, j, 0, ub.ovf)
         IN  IF ub.ovf = "wrap"
             THEN ToSigned((IF neg THEN 0 - v ELSE v) % UMOD)
             ELSE IF neg THEN (IF v > INT_MAX + 1 THEN INT_MIN ELSE 0 - v)
                         ELSE (IF v > INT_MAX THEN INT_MAX ELSE v)

\* fgets(line, n, f) on a stream that is not at its end: at most n - 1
\* characters, through the first newline; the rest of the buffer keeps what
\* it held.
FgetsCount(stream, n) ==
    LET nl == IF \E k \in 1..Len(stream) : stream[k] = NL
              THEN CHOOSE k \in 1..Len(stream) :
                       stream[k] = NL /\ \A j \in 1..(k - 1) : stream[j] # NL
              ELSE Len(stream)
    IN  Min(nl, n - 1)

fgets(line, n, stream) ==
    LET k == FgetsCount(stream, n)
    IN  [line |-> SubSeq(stream, 1, k) \o <<NUL>> \o SubSeq(line, k + 2, Len(line)),
         rest |-> SubSeq(stream, k + 1, Len(stream))]

----------------------------------------------------------------------------
(* The cache store *)

NOT_FOUND == -1
INITIAL_SIZE == 16

EmptyCache == [buf |-> <<>>, size |-> INITIAL_SIZE]

count(cc) == Len(cc.buf)

Has(cc, path) == \E i \in 1..count(cc) : cc.buf[i].path = path

\* the first index whose path strcmp()s equal to path
Find(cc, path) == CHOOSE i \in 1..count(cc) :
                      /\ cc.buf[i].path = path
                      /\ \A j \in 1..(i - 1) : cc.buf[j].path # path

\* a build_cache_add that grows the buffer when its capacity is exceeded:
\* c->count > c->size
build_cache_add_exceeded(cc, item) ==
    [buf  |-> Append(cc.buf, item),
     size |-> IF count(cc) + 1 > cc.size THEN cc.size * 2 ELSE cc.size]

\* build_cache_add, with the item its caller writes into the returned slot
build_cache_add(cc, item) ==
    [buf  |-> Append(cc.buf, item),
     size |-> IF count(cc) + 1 >= cc.size THEN cc.size * 2 ELSE cc.size]

\* a scan that stops one entry early: i < c->count - 1
build_cache_get_short(cc, path) ==
    IF \E n \in 1..(count(cc) - 1) : cc.buf[n].path = path
    THEN cc.buf[Find(cc, path)].mtime
    ELSE NOT_FOUND

build_cache_get(cc, path) ==
    IF Has(cc, path) THEN cc.buf[Find(cc, path)].mtime ELSE NOT_FOUND

\* a set that appends without looking for the path
build_cache_set_append(cc, path, mtime) ==
    build_cache_add(cc, [path |-> path, mtime |-> mtime])

build_cache_set(cc, path, mtime) ==
    IF Has(cc, path)
    THEN [cc EXCEPT !.buf[Find(cc, path)].mtime = mtime]
    ELSE build_cache_add(cc, [path |-> path, mtime |-> mtime])

\* what stat() answers for a path that does not exist
NoStat == [exists |-> FALSE, mtime |-> 0]

\* fs_time: the modification time, or failure with *m left as it was
fs_time(path) == IF path \in DOMAIN disk THEN disk[path] ELSE NoStat

\* build_cache_update, st being what fs_time answers; m_now is not initialised
\* and fs_time's result is not looked at, so on failure m_now is garbage, any
\* value
build_cache_update(cc, path, st, garbage) ==
    LET m_cached == build_cache_get(cc, path)
        m_now    == IF st.exists THEN st.mtime ELSE garbage
    IN  IF m_cached # m_now
        THEN [c |-> build_cache_set(cc, path, m_now), ret |-> TRUE, m_now |-> m_now]
        ELSE [c |-> cc, ret |-> FALSE, m_now |-> m_now]

\* one line of build_cache_save
SaveLine(item) ==
    <<QUOTE>> \o item.path \o <<QUOTE, SP>> \o FormatLLU(ToUnsigned(item.mtime)) \o <<NL>>

RECURSIVE SaveData(_, _)
SaveData(cc, i) ==
    IF i > count(cc) THEN <<>> ELSE SaveLine(cc.buf[i]) \o SaveData(cc, i + 1)

\* a scan for the closing quote that starts at line[len], the opening quote
PathLen_opening(line, len) == IF At(line, len) = QUOTE THEN len ELSE -1

\* the length of the path of a line that starts with a quote, or -1 when the
\* terminator comes before the closing quote
RECURSIVE PathLen(_, _)
PathLen(line, len) ==
    IF At(line, len + 1) = QUOTE THEN len
    ELSE IF At(line, len + 1) = NUL THEN -1
    ELSE PathLen(line, len + 1)

\* the while loop of build_cache_load.  over: some timestamp was read from a
\* position after the terminator of its line
RECURSIVE LoadLines(_, _, _, _, _)
LoadLines(cc, stream, line0, ub, over) ==
    IF stream = <<>> THEN [ret |-> 0, c |-> cc, over |-> over]
    ELSE LET got      == fgets(line0, PATH_MAX, stream)
             line_len == Strlen(got.line)
             line     == IF At(got.line, line_len - 1) = NL
                         THEN [got.line EXCEPT ![line_len] = NUL]
                         ELSE got.line
             len      == PathLen(line, 0)
             num      == len + 3
         IN  IF At(line, 0) # QUOTE THEN [ret |-> -1, c |-> cc, over |-> over]
             ELSE IF len = -1 THEN [ret |-> -1, c |-> cc, over |-> over]
             ELSE LoadLines(build_cache_add(cc, [path  |-> SubSeq(line, 2, len + 1),
                                                 mtime |-> atoll(line, num, ub)]),
                            got.rest, line, ub, over \/ num > Strlen(line))

build_cache_load(f, ub) ==
    IF f.exists THEN LoadLines(EmptyCache, f.data, Zeros(PATH_MAX), ub, FALSE)
    ELSE [ret |-> 0, c |-> EmptyCache, over |-> FALSE]

----------------------------------------------------------------------------
(* The inputs of the cache operations *)

\* paths handed to build_cache_set, build_cache_get and build_cache_update
Paths == {<<"a">>, <<"a", QUOTE, "b">>}

\* timestamps: the sentinel value, zero and a positive one
Mtimes == {-1, 5}

\* what fs_time may answer for a path: no such file, or its modification time
Stats == {NoStat} \cup {[exists |-> TRUE, mtime |-> m] : m \in Mtimes}

\* what an uninitialised int64_t, or memory outside the line buffer, may hold
Garbage == {-1, 3}

\* how the build resolves the undefined behaviour of build_cache_load
Undefined == [ovf : {"saturate", "wrap"}, oob : Garbage]

\* a line of PATH_MAX - 1 characters that ends with its closing quote
LongLine == <<QUOTE>> \o [i \in 1..(PATH_MAX - 3) |-> "a"] \o <<QUOTE>>

\* a well-formed line that, with its newline, is PATH_MAX characters long
LongEntry == <<QUOTE>> \o [i \in 1..(PATH_MAX - 5) |-> "a"] \o <<QUOTE, SP, "5", NL>>

\* cache files as an editor, or an earlier version of the program, may leave them
HandFiles == {
    <<>>,
    <<QUOTE, "a", QUOTE, SP, "5", NL>>,
    <<QUOTE, "a", QUOTE, SP, "0", NL, QUOTE, "a", QUOTE, SP, "5", NL>>,
    <<QUOTE, "a", QUOTE, SP, "5", NL, QUOTE, "b", QUOTE, SP, "0", NL>>,
    <<QUOTE, "a", "b", QUOTE, SP, "5", NL, QUOTE, "a", QUOTE>>,
    <<QUOTE, "a", QUOTE, NL>>,
    <<"a", QUOTE, SP, "5", NL>>,
    <<QUOTE, "a", QUOTE, SP, "5", NL, QUOTE, "a", "b", SP, "0", NL>>,
    <<QUOTE, "a", QUOTE, SP>> \o FormatLLU(UMOD - 1) \o <<NL>>,
    LongLine,
    LongEntry }

NoPath == <<>>

\* the record of a call: had = the path was in the store before the call,
\* fsok = fs_time succeeded, over = build_cache_load read past a terminator
Call(op, path, arg, ret, had, fsok, over) ==
    [op |-> op, path |-> path, arg |-> arg, ret |-> ret,
     had |-> had, fsok |-> fsok, over |-> over]

NoCall(op) == Call(op, NoPath, 0, 0, FALSE, TRUE, FALSE)

Unset == [has |-> FALSE, t |-> 0]
NoneSet == [p \in Paths |-> Unset]

PathsOf(cc) == {cc.buf[i].path : i \in 1..count(cc)}

CanAdd(path) == Has(c, path) \/ count(c) < MaxCount

\* a darray_t before darray_init, a heap with no block and a NULL pointer
NoDarray == [buf |-> "NULL", count |-> 0, size |-> 0, elem_size |-> 0,
             cells |-> <<>>, added |-> <<>>, over |-> FALSE]
NoHeap   == [ptr |-> 0, live |-> {}, blocks |-> 0, twice |-> FALSE]

----------------------------------------------------------------------------
(* The cache operations *)

Init ==
    /\ c = EmptyCache
    /\ file = [exists |-> FALSE, data |-> <<>>]
    /\ disk = <<>>
    /\ call = NoCall("init")
    /\ seen = {}
    /\ pure = TRUE
    /\ lastSet = NoneSet
    /\ pc = "idle"
    /\ src_i = 0
    /\ ent_k = 0
    /\ rebuild_all = FALSE
    /\ o_files = <<>>
    /\ log = <<>>
    /\ c0 = EmptyCache
    /\ darr = NoDarray
    /\ heap = NoHeap

CallLoad ==
    \E ub \in Undefined :
        LET r == build_cache_load(file, ub)
        IN  /\ c' = r.c
            /\ call' = Call("load", NoPath, 0, r.ret, FALSE, TRUE, r.over)
            /\ seen' = PathsOf(r.c)
            /\ pure' = (r.ret = 0 /\ count(r.c) = 0)
            /\ lastSet' = NoneSet
            /\ UNCHANGED <<file, disk, appVars>>

CallSave ==
    /\ file' = [exists |-> TRUE, data |-> SaveData(c, 1)]
    /\ call' = NoCall("save")
    /\ UNCHANGED <<c, disk, seen, pure, lastSet, appVars>>

\* fopen(BUILD_CACHE_PATH, "w") fails
CallSaveFail ==
    /\ call' = Call("save", NoPath, 0, -1, FALSE, TRUE, FALSE)
    /\ UNCHANGED <<c, file, disk, seen, pure, lastSet, appVars>>

CallDelete ==
    /\ file' = [exists |-> FALSE, data |-> <<>>]
    /\ call' = Call("delete", NoPath, 0, IF file.exists THEN 0 ELSE -1, FALSE, TRUE, FALSE)
    /\ UNCHANGED <<c, disk, seen, pure, lastSet, appVars>>

CallSet(path, mtime) ==
    /\ CanAdd(path)
    /\ c' = build_cache_set(c, path, mtime)
    /\ call' = Call("set", path, mtime, 0, Has(c, path), TRUE, FALSE)
    /\ seen' = seen \cup {path}
    /\ lastSet' = IF pure THEN [lastSet EXCEPT ![path] = [has |-> TRUE, t |-> mtime]]
                  ELSE lastSet
    /\ UNCHANGED <<file, disk, pure, appVars>>

CallGet(path) ==
    /\ call' = Call("get", path, 0, build_cache_get(c, path), Has(c, path), TRUE, FALSE)
    /\ UNCHANGED <<c, file, disk, seen, pure, lastSet, appVars>>

\* the file system's answer st is an input of the call
CallUpdate(path) ==
    /\ CanAdd(path)
    /\ \E st \in Stats, garbage \in Garbage :
           LET r == build_cache_update(c, path, st, garbage)
           IN  /\ c' = r.c
               /\ call' = Call("update", path, r.m_now, IF r.ret THEN 1 ELSE 0,
                               Has(c, path), st.exists, FALSE)
               /\ seen' = IF r.ret THEN seen \cup {path} ELSE seen
    /\ pure' = FALSE
    /\ lastSet' = NoneSet
    /\ UNCHANGED <<file, disk, appVars>>

(* The environment: the cache file is edited *)

EditFile(data) ==
    /\ file' = [exists |-> TRUE, data |-> data]
    /\ call' = NoCall("env")
    /\ UNCHANGED <<c, disk, seen, pure, lastSet, appVars>>

Next ==
    \/ CallLoad
    \/ CallSave
    \/ CallSaveFail
    \/ CallDelete
    \/ \E path \in Paths, mtime \in Mtimes : CallSet(path, mtime)
    \/ \E path \in Paths : CallGet(path)
    \/ \E path \in Paths : CallUpdate(path)
    \/ \E data \in HandFiles : EditFile(data)

Spec == Init /\ [][Next]_vars

(* The cache operations on a store that grows past its first allocation *)

\* the most entries of the growing store
MaxGrow == 33

Letters == <<"a", "b", "c", "d", "e", "f">>

\* the k-th path handed to the growing store
GrowPath(k) == <<Letters[((k - 1) \div Len(Letters)) + 1], Letters[((k - 1) % Len(Letters)) + 1]>>

GrowMtimes == {5, 6}

\* the calls made on the store cc: the first path with any time, the next new
\* path with one time
GrowInputs(cc) ==
    {[path |-> GrowPath(1), mtime |-> t] : t \in GrowMtimes}
        \cup (IF count(cc) < MaxGrow
              THEN {[path |-> GrowPath(count(cc) + 1), mtime |-> 5]}
              ELSE {})

GrowSet ==
    \E in \in GrowInputs(c) :
        /\ c' = build_cache_set(c, in.path, in.mtime)
        /\ call' = Call("set", in.path, in.mtime, 0, Has(c, in.path), TRUE, FALSE)
        /\ UNCHANGED <<file, disk, seen, pure, lastSet, libVars, appVars>>

GrowUpdate ==
    \E in \in GrowInputs(c), garbage \in Garbage :
        LET r == build_cache_update(c, in.path, [exists |-> TRUE, mtime |-> in.mtime], garbage)
        IN  /\ c' = r.c
            /\ call' = Call("update", in.path, r.m_now, IF r.ret THEN 1 ELSE 0,
                            Has(c, in.path), TRUE, FALSE)
            /\ UNCHANGED <<file, disk, seen, pure, lastSet, libVars, appVars>>

\* the cache files a build left: one line for each of the first n paths
GrowCounts == {0, INITIAL_SIZE - 1, INITIAL_SIZE}
GrowFiles ==
    {SaveData([buf  |-> [k \in 1..n |-> [path |-> GrowPath(k), mtime |-> 5]],
               size |-> INITIAL_SIZE], 1) : n \in GrowCounts}

NextGrow ==
    \/ CallLoad
    \/ GrowSet
    \/ GrowUpdate
    \/ \E data \in GrowFiles : EditFile(data)

SpecGrow == Init /\ [][NextGrow]_vars

----------------------------------------------------------------------------
(* Paths *)

\* fs_ext: what follows the last '.', the first character of the path aside
RECURSIVE ExtFrom(_, _)
ExtFrom(path, i) ==
    IF i <= 0 THEN path
    ELSE IF At(path, i) = "." THEN SubSeq(path, i + 2, Len(path))
    ELSE ExtFrom(path, i - 1)

fs_ext(path) == ExtFrom(path, Len(path) - 1)

RECURSIVE StemLen(_, _)
StemLen(path, i) ==
    IF i < 0 THEN Len(path)
    ELSE IF At(path, i) = "." THEN i
    ELSE StemLen(path, i - 1)

fs_replace_ext(path, new_ext) ==
    SubSeq(path, 1, StemLen(path, Len(path) - 1)) \o <<".">> \o new_ext

\* FS_JOIN_PATH(base, next)
fs_join_path(base, next) == base \o <<"/">> \o next

----------------------------------------------------------------------------
(* build_app: its configuration and the source tree *)

\* the length of o_files in the model (src/builder.h:730 has 128)
O_FILES_MAX == 4

config == [src_ext    |-> <<"c">>,
           header_ext |-> <<"h">>,
           bin        |-> <<"o">>,
           srcs       |-> << <<"s">>, <<"t">> >>]

\* the names the directories may hold, in the order readdir() gives them
Tree(dir) ==
    IF dir = <<"s">> THEN << <<"a", ".", "c">> >>
    ELSE IF dir = <<"t">> THEN << <<"y", ".", "h">>, <<"l">>, <<"b", ".", "c">> >>
    ELSE << <<"a", ".", "o">>, <<"l">>, <<"b", ".", "o">>, <<"n", ".", "c">>, <<"o">> >>

\* the most sources a large project adds to directory s
MaxMany == O_FILES_MAX

\* the k-th of them: 001.c, 002.c, ...
ManyName(k) ==
    <<Digits[(k \div 100) + 1], Digits[((k \div 10) % 10) + 1], Digits[(k % 10) + 1], ".", "c">>

\* the names a large project adds to a directory, after the others
More(dir) == IF dir = <<"s">> THEN [k \in 1..MaxMany |-> ManyName(k)] ELSE <<>>

\* the entries readdir() gives for a directory: the names that are on the disk
Listing(dir) ==
    SelectSeq(Tree(dir) \o More(dir), LAMBDA name : fs_join_path(dir, name) \in DOMAIN disk)

SrcDirs == {config.srcs[n] : n \in 1..Len(config.srcs)}
EntryPaths(dir) == {fs_join_path(dir, Tree(dir)[n]) : n \in 1..Len(Tree(dir))}

\* t/l is a symbolic link whose target does not exist: stat() fails on it
DanglingLinks == {fs_join_path(<<"t">>, <<"l">>), fs_join_path(config.bin, <<"l">>)}

\* the regular files of the source directories
AppFiles == (UNION {EntryPaths(dir) : dir \in SrcDirs}) \ DanglingLinks

\* the files of the configured directories with a given extension
FilesWithExt(ext) ==
    UNION {{fs_join_path(dir, Listing(dir)[n]) :
               n \in {m \in 1..Len(Listing(dir)) : fs_ext(Listing(dir)[m]) = ext}} :
           dir \in SrcDirs}

\* modification times of the files of the source tree
AppMtimes == {1, 2}

\* fs_dir_next(&dir, &ent) == 0: there is a k-th entry and fs_attr can stat it
DirHasNext(dir, k) ==
    /\ k <= Len(Listing(dir))
    /\ fs_time(fs_join_path(dir, Listing(dir)[k])).exists

build_cache_free(cc) == [buf |-> <<>>, size |-> 0]

\* build_file up to its CMD: fatal = fs_time failed, run = the compile command
\* is to be run
build_file(cc, out_dir, src_dir, src_name, force_rebuild) ==
    LET out      == fs_join_path(out_dir, fs_replace_ext(src_name, <<"o">>))
        src      == fs_join_path(src_dir, src_name)
        m_cached == build_cache_get(cc, src)
        st       == fs_time(src)
    IN  IF ~st.exists
        THEN [fatal |-> TRUE, run |-> FALSE, c |-> cc, out |-> out, src |-> src]
        ELSE IF m_cached # st.mtime \/ force_rebuild
        THEN [fatal |-> FALSE, run |-> TRUE, c |-> build_cache_set(cc, src, st.mtime),
              out |-> out, src |-> src]
        ELSE [fatal |-> FALSE, run |-> FALSE, c |-> cc, out |-> out, src |-> src]

Event(ev, arg, objs, status) == [ev |-> ev, arg |-> arg, objs |-> objs, status |-> status]

Stopped == {"idle", "done", "exit"}

CurDir == config.srcs[src_i]
CurEnt == Listing(CurDir)[ent_k]

\* a cmd that returns whatever the subprocess exits with
cmd_ignore(status) == FALSE

\* cmd: TRUE when it ends the process with LOG_FATAL, status being what wait()
\* reports for the subprocess (not 0 as well when execvp failed in the child)
cmd(status) == status # 0

\* an o_files_count that is never seen as 0
NoObjects_never(objs) == FALSE

\* o_files_count == 0
NoObjects(objs) == Len(objs) = 0

InitApp ==
    /\ c = EmptyCache
    /\ file = [exists |-> FALSE, data |-> <<>>]
    /\ disk = [p \in AppFiles |-> [exists |-> TRUE, mtime |-> 1]]
    /\ call = NoCall("init")
    /\ seen = {}
    /\ pure = TRUE
    /\ lastSet = NoneSet
    /\ pc = "idle"
    /\ src_i = 0
    /\ ent_k = 0
    /\ rebuild_all = FALSE
    /\ o_files = <<>>
    /\ log = <<>>
    /\ c0 = EmptyCache
    /\ darr = NoDarray
    /\ heap = NoHeap

\* build_app(compiler, config, NULL) up to its loop; force = config->rebuild_all
BuildStart(force) ==
    /\ pc \in Stopped
    /\ \E ub \in Undefined :
           LET r == build_cache_load(file, ub)
           IN  /\ c' = r.c
               /\ c0' = r.c
               /\ pc' = IF r.ret # 0 THEN "exit"
                        ELSE IF Len(config.srcs) = 0 THEN "end" ELSE "hdr_open"
    /\ src_i' = 1
    /\ ent_k' = 0
    /\ rebuild_all' = force
    /\ o_files' = <<>>
    /\ log' = <<Event("build_app", <<>>, <<>>, IF force THEN 1 ELSE 0)>>
    /\ UNCHANGED <<file, disk, apiVars>>

\* FOREACH_IN_DIR of the header check: fs_dir_open
HdrOpen ==
    /\ pc = "hdr_open"
    /\ \E opened \in BOOLEAN :
           /\ pc' = IF opened THEN "hdr" ELSE "exit"
           /\ ent_k' = 1
    /\ UNCHANGED <<c, file, disk, apiVars, src_i, rebuild_all, o_files, log, c0>>

\* the body of the header check for one entry
HdrEntry ==
    /\ pc = "hdr"
    /\ DirHasNext(CurDir, ent_k)
    /\ LET src      == fs_join_path(CurDir, CurEnt)
           m_cached == build_cache_get(c, src)
           st       == fs_time(src)
       IN  IF fs_ext(CurEnt) # config.header_ext
           THEN /\ ent_k' = ent_k + 1
                /\ UNCHANGED <<c, rebuild_all, pc>>
           ELSE IF ~st.exists
           THEN /\ pc' = "exit"
                /\ UNCHANGED <<c, rebuild_all, ent_k>>
           ELSE /\ ent_k' = ent_k + 1
                /\ rebuild_all' = (rebuild_all \/ m_cached # st.mtime)
                /\ c' = IF m_cached # st.mtime THEN build_cache_set(c, src, st.mtime) ELSE c
                /\ pc' = pc
    /\ UNCHANGED <<file, disk, apiVars, src_i, o_files, log, c0>>

\* fs_dir_next fails: the header check of this directory is over
HdrEnd ==
    /\ pc = "hdr"
    /\ ~DirHasNext(CurDir, ent_k)
    /\ pc' = "src_open"
    /\ UNCHANGED <<c, file, disk, apiVars, src_i, ent_k, rebuild_all, o_files, log, c0>>

\* FOREACH_IN_DIR of the rebuild: fs_dir_open
SrcOpen ==
    /\ pc = "src_open"
    /\ \E opened \in BOOLEAN :
           /\ pc' = IF opened THEN "src" ELSE "exit"
           /\ ent_k' = 1
    /\ UNCHANGED <<c, file, disk, apiVars, src_i, rebuild_all, o_files, log, c0>>

\* the body of the rebuild for one entry; status is what the compile command
\* exits with
SrcEntry ==
    /\ pc = "src"
    /\ DirHasNext(CurDir, ent_k)
    /\ IF fs_ext(CurEnt) # config.src_ext
       THEN /\ ent_k' = ent_k + 1
            /\ UNCHANGED <<c, o_files, log, pc>>
       ELSE IF ~(Len(o_files) < O_FILES_MAX)
       THEN /\ pc' = "exit"
            /\ UNCHANGED <<c, o_files, log, ent_k>>
       ELSE LET r == build_file(c, config.bin, CurDir, CurEnt, rebuild_all)
            IN  IF r.fatal
                THEN /\ pc' = "exit"
                     /\ UNCHANGED <<c, o_files, log, ent_k>>
                ELSE IF ~r.run
                THEN /\ o_files' = Append(o_files, r.out)
                     /\ ent_k' = ent_k + 1
                     /\ UNCHANGED <<c, log, pc>>
                ELSE \E status \in {0, 1} :
                         /\ c' = r.c
                         /\ log' = Append(log, Event("cc", r.src, <<>>, status))
                         /\ IF cmd(status)
                            THEN /\ pc' = "exit"
                                 /\ UNCHANGED <<o_files, ent_k>>
                            ELSE /\ o_files' = Append(o_files, r.out)
                                 /\ ent_k' = ent_k + 1
                                 /\ pc' = pc
    /\ UNCHANGED <<file, disk, apiVars, src_i, rebuild_all, c0>>

\* fs_dir_next fails: on to the next directory of config.srcs
SrcEnd ==
    /\ pc = "src"
    /\ ~DirHasNext(CurDir, ent_k)
    /\ pc' = IF src_i + 1 > Len(config.srcs) THEN "end" ELSE "hdr_open"
    /\ src_i' = src_i + 1
    /\ UNCHANGED <<c, file, disk, apiVars, ent_k, rebuild_all, o_files, log, c0>>

\* after the loop: "Nothing to rebuild", or build_cache_save (written = fopen
\* succeeded)
BuildEnd ==
    /\ pc = "end"
    /\ IF NoObjects(o_files)
       THEN /\ log' = Append(log, Event("nothing", <<>>, <<>>, 0))
            /\ pc' = "done"
            /\ c' = build_cache_free(c)
            /\ file' = file
       ELSE \E written \in BOOLEAN :
                IF written
                THEN /\ file' = [exists |-> TRUE, data |-> SaveData(c, 1)]
                     /\ log' = Append(log, Event("save", <<>>, <<>>, 0))
                     /\ pc' = "link"
                     /\ c' = c
                ELSE /\ log' = Append(log, Event("save", <<>>, <<>>, -1))
                     /\ pc' = "exit"
                     /\ UNCHANGED <<c, file>>
    /\ UNCHANGED <<disk, apiVars, src_i, ent_k, rebuild_all, o_files, c0>>

\* COMPILE(compiler, o_files, o_files_count, ...), then build_cache_free
BuildLink ==
    /\ pc = "link"
    /\ \E status \in {0, 1} :
           /\ log' = Append(log, Event("link", <<>>, o_files, status))
           /\ pc' = IF cmd(status) THEN "exit" ELSE "done"
           /\ c' = IF cmd(status) THEN c ELSE build_cache_free(c)
    /\ UNCHANGED <<file, disk, apiVars, src_i, ent_k, rebuild_all, o_files, c0>>

(* build_app on a large project: directory s holds a.c and n more sources, *)
(* directory t is as before, with or without the link t/l                 *)

\* how many sources the large project adds
ManyCounts == {O_FILES_MAX - 2, O_FILES_MAX - 1, O_FILES_MAX}

ManyDisk(n, link) ==
    [p \in AppFiles \cup {fs_join_path(<<"s">>, ManyName(k)) : k \in 1..n}
             \cup (IF link THEN {fs_join_path(<<"t">>, <<"l">>)} ELSE {}) |->
        IF p = fs_join_path(<<"t">>, <<"l">>) THEN NoStat ELSE [exists |-> TRUE, mtime |-> 1]]

InitMany ==
    /\ c = EmptyCache
    /\ file = [exists |-> FALSE, data |-> <<>>]
    /\ \E n \in ManyCounts, link \in BOOLEAN : disk = ManyDisk(n, link)
    /\ call = NoCall("init")
    /\ seen = {}
    /\ pure = TRUE
    /\ lastSet = NoneSet
    /\ pc = "idle"
    /\ src_i = 0
    /\ ent_k = 0
    /\ rebuild_all = FALSE
    /\ o_files = <<>>
    /\ log = <<>>
    /\ c0 = EmptyCache
    /\ darr = NoDarray
    /\ heap = NoHeap

NextMany ==
    \/ \E force \in BOOLEAN : BuildStart(force)
    \/ HdrOpen
    \/ HdrEntry
    \/ HdrEnd
    \/ SrcOpen
    \/ SrcEntry
    \/ SrcEnd
    \/ BuildEnd
    \/ BuildLink

SpecMany == InitMany /\ [][NextMany]_vars

(* build() of the build script.  The directories of SRC are the directories *)
(* of config.srcs; the model names SRC/<dir>/<name> as <dir>/<name>.        *)

\* FOREACH_VISIBLE_IN_DIR skips the entries whose name begins with '.'
Hidden(name) == name[1] = "."

\* build() up to its loops: the result of build_cache_load is not looked at
ScriptStart ==
    /\ pc \in Stopped
    /\ \E ub \in Undefined, opened \in BOOLEAN :
           LET r == build_cache_load(file, ub)
           IN  /\ c' = r.c
               /\ c0' = r.c
               /\ pc' = IF opened THEN "b_open" ELSE "exit"
    /\ src_i' = 1
    /\ ent_k' = 0
    /\ rebuild_all' = FALSE
    /\ o_files' = <<>>
    /\ log' = <<Event("build", <<>>, <<>>, 0)>>
    /\ UNCHANGED <<file, disk, apiVars>>

\* the inner FOREACH_VISIBLE_IN_DIR: fs_dir_open of a directory of SRC
ScriptOpen ==
    /\ pc = "b_open"
    /\ \E opened \in BOOLEAN :
           /\ pc' = IF opened THEN "b_ent" ELSE "exit"
           /\ ent_k' = 1
    /\ UNCHANGED <<c, file, disk, apiVars, src_i, rebuild_all, o_files, log, c0>>

\* the body of the inner loop for one entry: build_cache_update, the compile
\* command, build_cache_save (its result is not looked at)
ScriptEntry ==
    /\ pc = "b_ent"
    /\ DirHasNext(CurDir, ent_k)
    /\ IF Hidden(CurEnt)
       THEN /\ ent_k' = ent_k + 1
            /\ UNCHANGED <<c, file, log, pc>>
       ELSE \E garbage \in Garbage :
                LET src == fs_join_path(CurDir, CurEnt)
                    r   == build_cache_update(c, src, fs_time(src), garbage)
                IN  /\ c' = r.c
                    /\ IF ~r.ret
                       THEN /\ ent_k' = ent_k + 1
                            /\ UNCHANGED <<file, log, pc>>
                       ELSE \E status \in {0, 1}, written \in BOOLEAN :
                                IF cmd(status)
                                THEN /\ log' = Append(log, Event("cc", src, <<>>, status))
                                     /\ pc' = "exit"
                                     /\ UNCHANGED <<file, ent_k>>
                                ELSE /\ log' = log \o <<Event("cc", src, <<>>, status),
                                                        Event("save", <<>>, <<>>,
                                                              IF written THEN 0 ELSE -1)>>
                                     /\ file' = IF written
                                                THEN [exists |-> TRUE, data |-> SaveData(r.c, 1)]
                                                ELSE file
                                     /\ ent_k' = ent_k + 1
                                     /\ pc' = pc
    /\ UNCHANGED <<disk, apiVars, src_i, rebuild_all, o_files, c0>>

\* fs_dir_next fails: on to the next directory of SRC, or "Nothing to build"
\* and build_cache_free
ScriptDirEnd ==
    /\ pc = "b_ent"
    /\ ~DirHasNext(CurDir, ent_k)
    /\ src_i' = src_i + 1
    /\ IF src_i + 1 > Len(config.srcs)
       THEN /\ pc' = "done"
            /\ c' = build_cache_free(c)
            /\ log' = IF \E n \in 1..Len(log) : log[n].ev = "cc" THEN log
                      ELSE Append(log, Event("nothing", <<>>, <<>>, 0))
       ELSE /\ pc' = "b_open"
            /\ UNCHANGED <<c, log>>
    /\ UNCHANGED <<file, disk, apiVars, ent_k, rebuild_all, o_files, c0>>

(* The environment, between two invocations *)

NoInvocation ==
    /\ pc' = "idle"
    /\ c' = EmptyCache
    /\ c0' = EmptyCache
    /\ src_i' = 0
    /\ ent_k' = 0
    /\ rebuild_all' = FALSE
    /\ o_files' = <<>>
    /\ log' = <<>>

\* a file of the source tree is written
Touch(path, mtime) ==
    /\ pc \in Stopped
    /\ path \in DOMAIN disk => disk[path].mtime # mtime
    /\ disk' = [p \in DOMAIN disk \cup {path} |->
                   IF p = path THEN [exists |-> TRUE, mtime |-> mtime] ELSE disk[p]]
    /\ NoInvocation
    /\ UNCHANGED <<file, apiVars>>

\* a file or a link of the source tree is removed
Unlink(path) ==
    /\ pc \in Stopped
    /\ path \in DOMAIN disk
    /\ disk' = [p \in DOMAIN disk \ {path} |-> disk[p]]
    /\ NoInvocation
    /\ UNCHANGED <<file, apiVars>>

\* a symbolic link to a target that does not exist is made
MakeLink(path) ==
    /\ pc \in Stopped
    /\ path \notin DOMAIN disk
    /\ disk' = [p \in DOMAIN disk \cup {path} |-> IF p = path THEN NoStat ELSE disk[p]]
    /\ NoInvocation
    /\ UNCHANGED <<file, apiVars>>

\* the files that are written, and the files and links that are removed,
\* between the invocations of build_app
Written == {fs_join_path(<<"t">>, <<"y", ".", "h">>), fs_join_path(<<"t">>, <<"b", ".", "c">>)}
Removed == FilesWithExt(config.src_ext) \cup {fs_join_path(<<"t">>, <<"l">>)}

\* cache files that are cut short or were written over
CorruptFiles == {
    SaveLine([path |-> <<"s", "/", "a", ".", "c">>, mtime |-> 1]) \o <<"x", NL>>,
    <<QUOTE, "s">> }

Corrupt(data) ==
    /\ pc \in Stopped
    /\ file.data # data
    /\ file' = [exists |-> TRUE, data |-> data]
    /\ NoInvocation
    /\ UNCHANGED <<disk, apiVars>>

NextApp ==
    \/ \E force \in BOOLEAN : BuildStart(force)
    \/ HdrOpen
    \/ HdrEntry
    \/ HdrEnd
    \/ SrcOpen
    \/ SrcEntry
    \/ SrcEnd
    \/ BuildEnd
    \/ BuildLink
    \/ \E path \in Written, mtime \in AppMtimes : Touch(path, mtime)
    \/ \E path \in Removed : Unlink(path)
    \/ MakeLink(fs_join_path(<<"t">>, <<"l">>))
    \/ \E data \in CorruptFiles : Corrupt(data)

SpecApp == InitApp /\ [][NextApp]_vars

\* the build script: invocations of build() and the environment between them
NextScript ==
    \/ ScriptStart
    \/ ScriptOpen
    \/ ScriptEntry
    \/ ScriptDirEnd
    \/ \E path \in AppFiles, mtime \in AppMtimes : Touch(path, mtime)
    \/ \E data \in CorruptFiles : Corrupt(data)

SpecScript == InitApp /\ [][NextScript]_vars

----------------------------------------------------------------------------
(* build_clean(config.bin) *)

BinLink  == fs_join_path(config.bin, <<"l">>)
BinFiles == {fs_join_path(config.bin, Tree(config.bin)[n]) :
                n \in 1..Len(Tree(config.bin))} \ {BinLink}

\* the bin directory holds two objects, a source and a file named o; the
\* cache file is there
InitClean ==
    /\ c = EmptyCache
    /\ file = [exists |-> TRUE, data |-> <<>>]
    /\ disk = [p \in BinFiles |-> [exists |-> TRUE, mtime |-> 1]]
    /\ call = NoCall("init")
    /\ seen = {}
    /\ pure = TRUE
    /\ lastSet = NoneSet
    /\ pc = "idle"
    /\ src_i = 0
    /\ ent_k = 0
    /\ rebuild_all = FALSE
    /\ o_files = <<>>
    /\ log = <<>>
    /\ c0 = EmptyCache
    /\ darr = NoDarray
    /\ heap = NoHeap

\* build_clean up to its loop: fs_dir_open, and LOG_FATAL when it fails
CleanStart ==
    /\ pc \in Stopped
    /\ \E opened \in BOOLEAN : pc' = IF opened THEN "clean" ELSE "exit"
    /\ ent_k' = 1
    /\ log' = <<Event("build_clean", <<>>, <<>>, 0)>>
    /\ UNCHANGED <<c, file, disk, apiVars, src_i, rebuild_all, o_files, c0>>

\* the body of the loop for one entry; removed = unlink() succeeded, which
\* build_clean does not look at.  The entries after a removed one move up.
CleanEntry ==
    /\ pc = "clean"
    /\ DirHasNext(config.bin, ent_k)
    /\ LET name == Listing(config.bin)[ent_k]
           path == fs_join_path(config.bin, name)
       IN  IF fs_ext(name) # <<"o">>
           THEN /\ ent_k' = ent_k + 1
                /\ UNCHANGED <<disk, log>>
           ELSE \E removed \in BOOLEAN :
                    /\ log' = Append(log, Event("rm", path, <<>>, IF removed THEN 0 ELSE -1))
                    /\ disk' = IF removed THEN [p \in DOMAIN disk \ {path} |-> disk[p]]
                               ELSE disk
                    /\ ent_k' = IF removed THEN ent_k ELSE ent_k + 1
    /\ UNCHANGED <<c, file, apiVars, pc, src_i, rebuild_all, o_files, c0>>

\* fs_dir_next fails: build_cache_delete, then "Nothing to clean" or "Cleaned"
CleanEnd ==
    /\ pc = "clean"
    /\ ~DirHasNext(config.bin, ent_k)
    /\ file' = [exists |-> FALSE, data |-> <<>>]
    /\ log' = Append(log, Event(IF Len(log) = 1 THEN "nothing" ELSE "cleaned", <<>>, <<>>, 0))
    /\ pc' = "done"
    /\ UNCHANGED <<c, disk, apiVars, src_i, ent_k, rebuild_all, o_files, c0>>

\* a build leaves a cache file
CacheFiles == {SaveLine([path |-> <<"s", "/", "a", ".", "c">>, mtime |-> 1])}

NextClean ==
    \/ CleanStart
    \/ CleanEntry
    \/ CleanEnd
    \/ \E path \in BinFiles, mtime \in AppMtimes : Touch(path, mtime)
    \/ MakeLink(BinLink)
    \/ \E data \in CacheFiles : Corrupt(data)

SpecClean == InitClean /\ [][NextClean]_vars

----------------------------------------------------------------------------
(* csv.h: string views.  A view is [mem, len]: mem is the array cstr points *)
(* into, from cstr to its end, and len the length of the view.              *)

\* the most characters of a C string that views are taken of
MaxStr == 3

SvChars == {"a", "b"}

\* the C strings of at most MaxStr characters, with their terminator
SvMems == UNION {{m \o <<NUL>> : m \in [1..n -> SvChars]} : n \in 0..MaxStr}

\* the views sv_new(cstr, len) of the beginning of a C string
Views == UNION {{[mem |-> m, len |-> n] : n \in 0..(Len(m) - 1)} : m \in SvMems}

\* what a read outside the array may give
SvGarbage == {"a", NUL}

\* sv_at: sv.cstr[idx], no bound is looked at
sv_at(sv, idx, oob) == IF idx < Len(sv.mem) THEN At(sv.mem, idx) ELSE oob

\* the loop of sv_has_suffix from index i on; over: suffix was read at an
\* index that is not below suffix.len
RECURSIVE HasSuffixFrom(_, _, _, _, _)
HasSuffixFrom(sv, suffix, i, oob, over) ==
    IF ~(i < sv.len) THEN [ret |-> TRUE, over |-> over]
    ELSE IF sv_at(sv, i, oob) # sv_at(suffix, i, oob)
    THEN [ret |-> FALSE, over |-> over \/ i >= suffix.len]
    ELSE HasSuffixFrom(sv, suffix, i + 1, oob, over \/ i >= suffix.len)

sv_has_suffix(sv, suffix, oob) ==
    IF sv.len < suffix.len THEN [ret |-> FALSE, over |-> FALSE]
    ELSE HasSuffixFrom(sv, suffix, sv.len - suffix.len, oob, FALSE)

\* the loop of sv_is_equal from index i on, len being the larger of the two
\* lengths; over: a view was read at an index that is not below its len
RECURSIVE IsEqualFrom(_, _, _, _, _, _)
IsEqualFrom(sv, to, len, i, oob, over) ==
    IF ~(i < len) THEN [ret |-> TRUE, over |-> over]
    ELSE IF sv_at(sv, i, oob) # sv_at(to, i, oob)
    THEN [ret |-> FALSE, over |-> over \/ i >= sv.len \/ i >= to.len]
    ELSE IsEqualFrom(sv, to, len, i + 1, oob, over \/ i >= sv.len \/ i >= to.len)

sv_is_equal(sv, to, oob) ==
    IsEqualFrom(sv, to, IF sv.len > to.len THEN sv.len ELSE to.len, 0, oob, FALSE)

\* (size_t)-1, size_t being as wide as the integers of the model
SV_NPOS == UMOD - 1

\* sv_cstr: the view of a whole C string
sv_cstr(cstr) == [mem |-> cstr, len |-> Strlen(cstr)]

sv_contains(sv, ch, oob) == \E i \in 0..(sv.len - 1) : sv_at(sv, i, oob) = ch

\* the loop of sv_trim_front from index i on
RECURSIVE TrimFrontFrom(_, _, _, _, _)
TrimFrontFrom(sv, matches, i, trimmed, oob) ==
    IF ~(i < sv.len) THEN trimmed
    ELSE IF ~sv_contains(matches, sv_at(sv, i, oob), oob) THEN trimmed
    ELSE TrimFrontFrom(sv, matches, i + 1,
                       [mem |-> Tail(trimmed.mem), len |-> trimmed.len - 1], oob)

sv_trim_front(sv, chs, oob) == TrimFrontFrom(sv, sv_cstr(chs), 0, sv, oob)

\* the loop of sv_trim_back from index i down, until i wraps to SV_NPOS
RECURSIVE TrimBackFrom(_, _, _, _, _)
TrimBackFrom(sv, matches, i, trimmed, oob) ==
    IF i = SV_NPOS THEN trimmed
    ELSE IF ~sv_contains(matches, sv_at(sv, i, oob), oob) THEN trimmed
    ELSE TrimBackFrom(sv, matches, (i - 1) % UMOD,
                      [trimmed EXCEPT !.len = (@ - 1) % UMOD], oob)

\* a trim of the back that removes nothing
sv_trim_back_keep(sv, chs, oob) == sv

sv_trim_back(sv, chs, oob) ==
    TrimBackFrom(sv, sv_cstr(chs), (sv.len - 1) % UMOD, sv, oob)

sv_trim(sv, chs, oob) == sv_trim_back(sv_trim_front(sv, chs, oob), chs, oob)

\* the arguments of a call: two views, or a view and the C string chs
SvArgs == {[op |-> "args", sv |-> v, arg |-> w] : v \in Views, w \in Views}
              \cup {[op |-> "trim_args", sv |-> v, arg |-> m] : v \in Views, m \in SvMems}

InitSv ==
    /\ c = EmptyCache
    /\ file = [exists |-> FALSE, data |-> <<>>]
    /\ disk = <<>>
    /\ call \in SvArgs
    /\ seen = {}
    /\ pure = TRUE
    /\ lastSet = NoneSet
    /\ pc = "idle"
    /\ src_i = 0
    /\ ent_k = 0
    /\ rebuild_all = FALSE
    /\ o_files = <<>>
    /\ log = <<>>
    /\ c0 = EmptyCache
    /\ darr = NoDarray
    /\ heap = NoHeap

CallHasSuffix ==
    /\ call.op = "args"
    /\ \E oob \in SvGarbage :
           LET r == sv_has_suffix(call.sv, call.arg, oob)
           IN  call' = [op |-> "sv_has_suffix", sv |-> call.sv, arg |-> call.arg,
                        ret |-> r.ret, over |-> r.over]
    /\ UNCHANGED <<c, file, disk, seen, pure, lastSet, appVars>>

CallIsEqual ==
    /\ call.op = "args"
    /\ \E oob \in SvGarbage :
           LET r == sv_is_equal(call.sv, call.arg, oob)
           IN  call' = [op |-> "sv_is_equal", sv |-> call.sv, arg |-> call.arg,
                        ret |-> r.ret, over |-> r.over]
    /\ UNCHANGED <<c, file, disk, seen, pure, lastSet, appVars>>

\* sv_trim, and sv_trim of its result
CallTrim ==
    /\ call.op = "trim_args"
    /\ \E oob \in SvGarbage :
           LET r == sv_trim(call.sv, call.arg, oob)
           IN  call' = [op |-> "sv_trim", sv |-> call.sv, arg |-> call.arg,
                        ret |-> r, again |-> sv_trim(r, call.arg, oob)]
    /\ UNCHANGED <<c, file, disk, seen, pure, lastSet, appVars>>

NextSv ==
    \/ CallHasSuffix
    \/ CallIsEqual
    \/ CallTrim

SpecSv == InitSv /\ [][NextSv]_vars

----------------------------------------------------------------------------
(* darray.h: the dynamic array.  cells is what the allocation of buf holds, *)
(* one cell for each whole element that fits into it, "?" where nothing was *)
(* written; over: a write went outside the allocation.                      *)

\* DARRAY_CHUNK_SIZE in the model (src/unnamed/part_000:49 has 32)
DARRAY_CHUNK_SIZE == 2
\* the most darray_add calls on one array
MaxAdds == 5

ElemSizes == {1, 2, 4}
Elems     == {"x", "y"}

\* an allocation of bytes bytes that keeps the cells of old that fit into it
Cells(old, bytes, elem_size) ==
    [k \in 1..(bytes \div elem_size) |-> IF k <= Len(old) THEN old[k] ELSE "?"]

\* darray_init; ok = malloc succeeded
darray_init(elem_size, ok) ==
    [buf       |-> IF ok THEN "live" ELSE "NULL",
     count     |-> 0,
     size      |-> DARRAY_CHUNK_SIZE,
     elem_size |-> elem_size,
     cells     |-> IF ok THEN Cells(<<>>, DARRAY_CHUNK_SIZE * elem_size, elem_size) ELSE <<>>,
     added     |-> <<>>,
     over      |-> FALSE]

\* the realloc of darray_add: realloc(d->buf, d->size), size bytes
realloc_bytes(dd, size) == Cells(dd.cells, size, dd.elem_size)

\* the memcpy of darray_add and ++ d->count
Store(dd, data) ==
    IF dd.buf = "live" /\ dd.count < Len(dd.cells)
    THEN [dd EXCEPT !.cells[dd.count + 1] = data, !.count = @ + 1,
                    !.added = Append(@, data)]
    ELSE [dd EXCEPT !.over = TRUE, !.count = @ + 1, !.added = Append(@, data)]

\* darray_add; ok = realloc succeeded
darray_add(dd, data, ok) ==
    IF dd.count >= dd.size
    THEN IF ~ok
         THEN [ret |-> -1, d |-> [dd EXCEPT !.size = @ * 2, !.buf = "freed", !.cells = <<>>]]
         ELSE [ret |-> 0,
               d   |-> Store([dd EXCEPT !.size = @ * 2,
                                        !.cells = realloc_bytes(dd, dd.size * 2),
                                        !.over = @ \/ dd.buf # "live"], data)]
    ELSE [ret |-> 0, d |-> Store(dd, data)]

\* darray_at: NULL, or the byte offset of the element in buf
darray_at(dd, idx) == IF idx >= dd.count THEN "NULL" ELSE idx * dd.elem_size

darray_free(dd) == [dd EXCEPT !.buf = "NULL", !.count = 0, !.size = 0, !.cells = <<>>,
                              !.added = <<>>]

InitDarray ==
    /\ c = EmptyCache
    /\ file = [exists |-> FALSE, data |-> <<>>]
    /\ disk = <<>>
    /\ call = [op |-> "init"]
    /\ seen = {}
    /\ pure = TRUE
    /\ lastSet = NoneSet
    /\ pc = "idle"
    /\ src_i = 0
    /\ ent_k = 0
    /\ rebuild_all = FALSE
    /\ o_files = <<>>
    /\ log = <<>>
    /\ c0 = EmptyCache
    /\ darr = NoDarray
    /\ heap = NoHeap

DarrayInit(elem_size) ==
    /\ darr.buf = "NULL"
    /\ \E ok \in BOOLEAN :
           /\ darr' = darray_init(elem_size, ok)
           /\ call' = [op |-> "darray_init", ret |-> IF ok THEN 0 ELSE -1]
    /\ UNCHANGED <<c, file, disk, seen, pure, lastSet, heap,
                   pc, src_i, ent_k, rebuild_all, o_files, log, c0>>

DarrayAdd(data) ==
    /\ darr.buf = "live"
    /\ darr.count < MaxAdds
    /\ \E ok \in BOOLEAN :
           LET r == darray_add(darr, data, ok)
           IN  /\ darr' = r.d
               /\ call' = [op |-> "darray_add", ret |-> r.ret]
    /\ UNCHANGED <<c, file, disk, seen, pure, lastSet, heap,
                   pc, src_i, ent_k, rebuild_all, o_files, log, c0>>

DarrayAt(idx) ==
    /\ darr.buf = "live"
    /\ call' = [op |-> "darray_at", arg |-> idx, ret |-> darray_at(darr, idx)]
    /\ UNCHANGED <<c, file, disk, seen, pure, lastSet, darr, heap,
                   pc, src_i, ent_k, rebuild_all, o_files, log, c0>>

DarrayFree ==
    /\ darr.buf # "NULL"
    /\ darr' = darray_free(darr)
    /\ call' = [op |-> "darray_free"]
    /\ UNCHANGED <<c, file, disk, seen, pure, lastSet, heap,
                   pc, src_i, ent_k, rebuild_all, o_files, log, c0>>

NextDarray ==
    \/ \E elem_size \in ElemSizes : DarrayInit(elem_size)
    \/ \E data \in Elems : DarrayAdd(data)
    \/ \E idx \in 0..MaxAdds : DarrayAt(idx)
    \/ DarrayFree

SpecDarray == InitDarray /\ [][NextDarray]_vars

----------------------------------------------------------------------------
(* ccommon.h: salloc, srealloc and sfree.  heap.ptr is the pointer variable *)
(* the macros take the address of (0 = NULL, else the number of a block),   *)
(* heap.live the blocks allocated and not freed, heap.twice: free was       *)
(* called on a block that was not live.                                     *)

\* the most blocks the heap hands out
MaxBlocks == 4

\* the COUNT arguments of SALLOC and SREALLOC
Counts == {0, 1, 2}

\* free(p)
free(h, p) ==
    IF p = 0 THEN h
    ELSE [h EXCEPT !.live = @ \ {p}, !.twice = @ \/ p \notin h.live]

\* what malloc(nbytes) may do
MallocOutcomes(h, nbytes) ==
    {"NULL"} \cup (IF h.blocks < MaxBlocks THEN {"new"} ELSE {})

\* what realloc(p, nbytes) of a block may do; for nbytes = 0 a C library may
\* free the block and return NULL, return NULL and keep it, or return a block
ReallocOutcomes(h, nbytes) ==
    {"NULL", "same"} \cup (IF h.blocks < MaxBlocks THEN {"new"} ELSE {})
                   \cup (IF nbytes = 0 THEN {"freed"} ELSE {})

\* realloc(p, nbytes) with the outcome out: the heap after it and the result
realloc(h, p, nbytes, out) ==
    CASE out = "NULL"  -> [h |-> h, ret |-> 0]
      [] out = "same"  -> [h |-> h, ret |-> p]
      [] out = "new"   -> [h |-> [free(h, p) EXCEPT !.blocks = @ + 1,
                                                   !.live = @ \cup {h.blocks + 1}],
                           ret |-> h.blocks + 1]
      [] out = "freed" -> [h |-> free(h, p), ret |-> 0]

\* salloc, assigned to the pointer by SALLOC
salloc(h, out) ==
    IF out = "new"
    THEN [h EXCEPT !.blocks = @ + 1, !.live = @ \cup {h.blocks + 1}, !.ptr = h.blocks + 1]
    ELSE [h EXCEPT !.ptr = 0]

sfree(h) ==
    IF h.ptr = 0
    THEN [ret |-> -1, h |-> h]
    ELSE [ret |-> 0, h |-> [free(h, h.ptr) EXCEPT !.ptr = 0]]

srealloc(h, memb_size, cnt, out) ==
    IF h.ptr = 0
    THEN [ret |-> -1, h |-> h]
    ELSE LET r == realloc(h, h.ptr, memb_size * cnt, out)
         IN  IF r.ret = 0
             THEN [ret |-> -1, h |-> sfree([r.h EXCEPT !.ptr = h.ptr]).h]
             ELSE [ret |-> 0, h |-> [r.h EXCEPT !.ptr = r.ret]]

InitHeap ==
    /\ c = EmptyCache
    /\ file = [exists |-> FALSE, data |-> <<>>]
    /\ disk = <<>>
    /\ call = [op |-> "init"]
    /\ seen = {}
    /\ pure = TRUE
    /\ lastSet = NoneSet
    /\ pc = "idle"
    /\ src_i = 0
    /\ ent_k = 0
    /\ rebuild_all = FALSE
    /\ o_files = <<>>
    /\ log = <<>>
    /\ c0 = EmptyCache
    /\ darr = NoDarray
    /\ heap = NoHeap

\* SALLOC(PTR, TYPE, COUNT) on a pointer that holds no block
CallSalloc(cnt) ==
    /\ heap.ptr = 0
    /\ \E out \in MallocOutcomes(heap, cnt) :
           /\ heap' = salloc(heap, out)
           /\ call' = [op |-> "salloc", arg |-> cnt, out |-> out, before |-> heap,
                       ret |-> heap'.ptr]
    /\ UNCHANGED <<c, file, disk, seen, pure, lastSet, darr,
                   pc, src_i, ent_k, rebuild_all, o_files, log, c0>>

CallSfree ==
    /\ heap' = sfree(heap).h
    /\ call' = [op |-> "sfree", arg |-> 0, out |-> "", before |-> heap,
                ret |-> sfree(heap).ret]
    /\ UNCHANGED <<c, file, disk, seen, pure, lastSet, darr,
                   pc, src_i, ent_k, rebuild_all, o_files, log, c0>>

CallSrealloc(cnt) ==
    /\ \E out \in ReallocOutcomes(heap, cnt) :
           /\ heap' = srealloc(heap, 1, cnt, out).h
           /\ call' = [op |-> "srealloc", arg |-> cnt, out |-> out, before |-> heap,
                       ret |-> srealloc(heap, 1, cnt, out).ret]
    /\ UNCHANGED <<c, file, disk, seen, pure, lastSet, darr,
                   pc, src_i, ent_k, rebuild_all, o_files, log, c0>>

NextHeap ==
    \/ \E cnt \in Counts : CallSalloc(cnt)
    \/ CallSfree
    \/ \E cnt \in Counts : CallSrealloc(cnt)

SpecHeap == InitHeap /\ [][NextHeap]_vars

----------------------------------------------------------------------------
(* cargs.h: args_parse_flags.  An argument is the sequence of its           *)
(* characters; a pointer that may be NULL is a record with a field null.    *)

\* the most arguments of one command line
MaxArgs == 3

\* a name that is NULL
NullName == <<"NULL">>

\* the flags registered by flag_bool, flag_size and flag_cstr
flags ==
    << [type |-> "FLAG_BOOL", short_name |-> <<"v">>, long_name |-> <<"v", "e">>],
       [type |-> "FLAG_SIZE", short_name |-> <<"s">>, long_name |-> NullName],
       [type |-> "FLAG_CSTR", short_name |-> <<"c">>, long_name |-> NullName] >>

NoFlag == [type |-> "NULL", short_name |-> NullName, long_name |-> NullName]

\* the arguments of the model
ArgTokens ==
    { <<"x">>, <<"1">>, <<"-", "-">>, <<"-", "v">>, <<"-", "-", "v", "e">>,
      <<"-", "s">>, <<"-", "s", "=", "1">>, <<"-", "c">>, <<"-", "u">> }

ArgLists == UNION {[1..n -> ArgTokens] : n \in 0..MaxArgs}

arg_is_flags_end(arg) == arg = <<"-", "-">>

arg_is_flag(arg) == Len(arg) > 0 /\ arg[1] = "-" /\ ~arg_is_flags_end(arg)

arg_is_flag_long(arg) ==
    IF Len(arg) > 2 THEN arg[1] = "-" /\ arg[2] = "-" ELSE FALSE

get_flag_by_short_name(short_name) ==
    IF \E i \in 1..Len(flags) : flags[i].short_name # NullName /\ flags[i].short_name = short_name
    THEN flags[CHOOSE i \in 1..Len(flags) :
                   /\ flags[i].short_name = short_name
                   /\ \A j \in 1..(i - 1) : flags[j].short_name # short_name]
    ELSE NoFlag

get_flag_by_long_name(long_name) ==
    IF \E i \in 1..Len(flags) : flags[i].long_name # NullName /\ flags[i].long_name = long_name
    THEN flags[CHOOSE i \in 1..Len(flags) :
                   /\ flags[i].long_name = long_name
                   /\ \A j \in 1..(i - 1) : flags[j].long_name # long_name]
    ELSE NoFlag

\* the number of decimal digits of val from position k on
RECURSIVE DigitsFrom(_, _)
DigitsFrom(val, k) ==
    IF k <= Len(val) /\ IsDigit(val[k]) THEN 1 + DigitsFrom(val, k + 1) ELSE 0

\* strtoull(val, &ptr, 10): how many characters of val it converts
strtoull_end(val) ==
    LET sign == IF Len(val) > 0 /\ val[1] \in {"+", "-"} THEN 1 ELSE 0
        n    == DigitsFrom(val, sign + 1)
    IN  IF n = 0 THEN 0 ELSE sign + n

flag_set(f, val) ==
    CASE f.type = "FLAG_CSTR" -> "ARG_OK"
      [] f.type = "FLAG_SIZE" ->
             IF strtoull_end(val) # Len(val) THEN "ARG_EXPECTED_SIZE" ELSE "ARG_OK"
      [] f.type = "FLAG_BOOL" ->
             IF val \in {<<"t", "r", "u", "e">>, <<"1">>, <<"f", "a", "l", "s", "e">>, <<"0">>}
             THEN "ARG_OK" ELSE "ARG_EXPECTED_BOOL"

\* the number of characters of str before its first '=', all of them if none
RECURSIVE NameLen(_, _)
NameLen(str, k) ==
    IF k <= Len(str) /\ str[k] # "=" THEN 1 + NameLen(str, k + 1) ELSE 0

\* the loop of args_parse_flags from index i on; st holds flags_end, *where,
\* *stripped, the number of malloc calls made, and at, the index of the flag
\* argument in work (-1 before the first); fail is the malloc call that
\* returns NULL (0: none)
RECURSIVE ParseFrom(_, _, _, _)
ParseFrom(a, i, st, fail) ==
    IF i >= Len(a) THEN [ret |-> "ARG_OK", st |-> st]
    ELSE IF arg_is_flags_end(a[i + 1]) /\ ~st.flags_end
    THEN IF st.stripped.null
         THEN [ret |-> "ARG_OK", st |-> st]
         ELSE ParseFrom(a, i + 1, [st EXCEPT !.flags_end = TRUE], fail)
    ELSE IF ~arg_is_flag(a[i + 1]) \/ st.flags_end
    THEN ParseFrom(a, i + 1,
                   [st EXCEPT !.stripped.v = IF st.stripped.null THEN @ ELSE Append(@, a[i + 1])],
                   fail)
    ELSE LET st1     == [st EXCEPT !.where.val = IF st.where.null THEN @ ELSE i,
                                   !.at = i, !.mallocs = @ + 1]
             is_long == arg_is_flag_long(a[i + 1])
             arg     == SubSeq(a[i + 1], (IF is_long THEN 1 ELSE 0) + 2, Len(a[i + 1]))
             cnt     == NameLen(arg, 1)
             name    == SubSeq(arg, 1, cnt)
             flag    == IF is_long THEN get_flag_by_long_name(name)
                                   ELSE get_flag_by_short_name(name)
             val     == SubSeq(arg, cnt + 2, Len(arg))
             st2     == [st1 EXCEPT !.mallocs = @ + 1]
         IN  IF st1.mallocs = fail THEN [ret |-> "ARG_OUT_OF_MEM", st |-> st1]
             ELSE IF flag = NoFlag THEN [ret |-> "ARG_UNKNOWN", st |-> st1]
             ELSE IF cnt < Len(arg)
             THEN IF st2.mallocs = fail THEN [ret |-> "ARG_OUT_OF_MEM", st |-> st2]
                  ELSE IF flag_set(flag, val) # "ARG_OK"
                  THEN [ret |-> flag_set(flag, val), st |-> st2]
                  ELSE ParseFrom(a, i + 1, st2, fail)
             ELSE IF flag.type = "FLAG_BOOL" THEN ParseFrom(a, i + 1, st1, fail)
             ELSE IF i + 1 >= Len(a) THEN [ret |-> "ARG_MISSING_VALUE", st |-> st1]
             ELSE IF flag_set(flag, a[i + 2]) # "ARG_OK"
             THEN [ret |-> flag_set(flag, a[i + 2]), st |-> st1]
             ELSE ParseFrom(a, i + 2, st1, fail)

\* args_parse_flags(a, where, stripped); where and stripped as the caller
\* holds them before the call
args_parse_flags(a, where, stripped, fail) ==
    LET st0 == [flags_end |-> FALSE, where |-> where, at |-> -1,
                stripped |-> [stripped EXCEPT !.v = <<>>],
                mallocs |-> IF stripped.null THEN 0 ELSE 1]
    IN  IF ~stripped.null /\ fail = 1
        THEN [ret |-> "ARG_OUT_OF_MEM", st |-> [st0 EXCEPT !.stripped = stripped]]
        ELSE ParseFrom(a, 0, st0, fail)

\* what the caller's variables may hold before the call
WhereArgs    == {[null |-> TRUE, val |-> 0]} \cup {[null |-> FALSE, val |-> w] : w \in {0, MaxArgs}}
StrippedArgs == {[null |-> n, v |-> <<>>] : n \in BOOLEAN}
MallocFails  == 0..2

ArgsInputs ==
    {[op |-> "argv", a |-> a, where |-> w, stripped |-> t, fail |-> f] :
         a \in ArgLists, w \in WhereArgs, t \in StrippedArgs, f \in MallocFails}

InitArgs ==
    /\ c = EmptyCache
    /\ file = [exists |-> FALSE, data |-> <<>>]
    /\ disk = <<>>
    /\ call \in ArgsInputs
    /\ seen = {}
    /\ pure = TRUE
    /\ lastSet = NoneSet
    /\ pc = "idle"
    /\ src_i = 0
    /\ ent_k = 0
    /\ rebuild_all = FALSE
    /\ o_files = <<>>
    /\ log = <<>>
    /\ c0 = EmptyCache
    /\ darr = NoDarray
    /\ heap = NoHeap

CallParseFlags ==
    /\ call.op = "argv"
    /\ LET r == args_parse_flags(call.a, call.where, call.stripped, call.fail)
       IN  call' = [op |-> "args_parse_flags", a |-> call.a, fail |-> call.fail,
                    ret |-> r.ret, where |-> r.st.where, stripped |-> r.st.stripped,
                    at |-> r.st.at]
    /\ UNCHANGED <<c, file, disk, seen, pure, lastSet, libVars, appVars>>

NextArgs == CallParseFlags

SpecArgs == InitArgs /\ [][NextArgs]_vars

----------------------------------------------------------------------------
(* What the claims speak of *)

\* paths asked for, those never handed to build_cache_set among them
Probes == Paths \cup {<<"b">>, <<"a", "b">>}

\* the (path, timestamp) pairs of a store
Pairs(cc) == {<<cc.buf[n].path, cc.buf[n].mtime>> : n \in 1..count(cc)}

\* the entries of the paths other than path, in their order
Others(cc, path) == SelectSeq(cc.buf, LAMBDA item : item.path # path)

\* the lines of a text, each without its newline
RECURSIVE TextLines(_)
TextLines(data) ==
    IF data = <<>> THEN <<>>
    ELSE LET k == IF \E n \in 1..Len(data) : data[n] = NL
                  THEN CHOOSE n \in 1..Len(data) :
                           data[n] = NL /\ \A j \in 1..(n - 1) : data[j] # NL
                  ELSE Len(data) + 1
         IN  <<SubSeq(data, 1, k - 1)>> \o TextLines(SubSeq(data, k + 1, Len(data)))

\* the position of the second double quote of a line
ClosingQuote(l) == CHOOSE q \in 2..Len(l) :
                       l[q] = QUOTE /\ \A j \in 2..(q - 1) : l[j] # QUOTE

HasBothQuotes(l) == /\ Len(l) >= 2
                    /\ l[1] = QUOTE
                    /\ \E q \in 2..Len(l) : l[q] = QUOTE

\* "<path>" <decimal>, the path without a double quote
WellFormedLine(l) ==
    /\ HasBothQuotes(l)
    /\ LET q == ClosingQuote(l)
       IN  /\ q + 2 <= Len(l)
           /\ l[q + 1] = SP
           /\ \A j \in (q + 2)..Len(l) : IsDigit(l[j])

LinePath(l) == SubSeq(l, 2, ClosingQuote(l) - 1)

RECURSIVE DecVal(_)
DecVal(ds) ==
    IF ds = <<>> THEN 0
    ELSE DecVal(SubSeq(ds, 1, Len(ds) - 1)) * 10 + DigitVal(ds[Len(ds)])

LineValue(l) == DecVal(SubSeq(l, ClosingQuote(l) + 2, Len(l)))

FileLines == IF file.exists THEN TextLines(file.data) ELSE <<>>

\* a well-formed line that one fgets reads whole and whose decimal fits int64_t
FittingLine(l) ==
    /\ WellFormedLine(l)
    /\ LineValue(l) <= INT_MAX
    /\ Len(l) + 1 < PATH_MAX

\* the first line of the file that holds path
FirstLineOf(path) ==
    CHOOSE n \in 1..Len(FileLines) :
        /\ LinePath(FileLines[n]) = path
        /\ \A j \in 1..(n - 1) : LinePath(FileLines[j]) # path

\* the files the compile command was invoked for in this invocation
Compiled == {log[n].arg : n \in {m \in 1..Len(log) : log[m].ev = "cc"}}

\* the invocation is one of build_app, of build() of the build script
InBuildApp == log # <<>> /\ log[1].ev = "build_app"
InScript   == log # <<>> /\ log[1].ev = "build"

\* some header's modification time differs from the value the cache held
HeaderChanged ==
    \E h \in FilesWithExt(config.header_ext) :
        fs_time(h).exists /\ build_cache_get(c0, h) # fs_time(h).mtime

\* config.rebuild_all of the invocation
ConfigRebuildAll == log[1].status = 1

\* the headers and the sources of the configured directories
Sources == FilesWithExt(config.src_ext)
Headers == FilesWithExt(config.header_ext)

\* the cache the invocation loaded holds the modification time f has on disk
Current(f) == /\ fs_time(f).exists
              /\ Has(c0, f)
              /\ build_cache_get(c0, f) = fs_time(f).mtime

\* the cache file was written in this invocation
Saved == \E n \in 1..Len(log) : log[n].ev = "save" /\ log[n].status = 0

\* the link commands of this invocation
Links == {n \in 1..Len(log) : log[n].ev = "link"}

\* the object paths of the sources of the configured directories
Objects ==
    UNION {{fs_join_path(config.bin, fs_replace_ext(Listing(dir)[n], <<"o">>)) :
               n \in {m \in 1..Len(Listing(dir)) : fs_ext(Listing(dir)[m]) = config.src_ext}} :
           dir \in SrcDirs}

----------------------------------------------------------------------------
(* The claims *)

\* C1: build_cache_get returns -1 for a path never set or loaded; right after
\* build_cache_set(c, path, t), build_cache_get(c, path) is t and
\* build_cache_get of every other path is what it was.
C1_GetAfterSet ==
    /\ [](\A p \in Probes : p \notin seen => build_cache_get(c, p) = NOT_FOUND)
    /\ [][call'.op = "set" =>
            /\ build_cache_get(c', call'.path) = call'.arg
            /\ \A q \in Probes \ {call'.path} :
                   build_cache_get(c', q) = build_cache_get(c, q)]_vars

C1_Witness ==
    /\ call.op = "set"
    /\ call.had
    /\ count(c) = 2
    /\ build_cache_get(c, call.path) = call.arg
    /\ call.arg # NOT_FOUND
    /\ \E p \in Probes : p \notin seen

\* C2: from an empty store, after build_cache_set calls only, every path set
\* has exactly one entry, holding the timestamp of its latest set, and count is
\* the number of distinct paths set.
C2_LastWriteWins ==
    pure =>
        /\ \A p \in Paths :
               IF lastSet[p].has
               THEN /\ Cardinality({n \in 1..count(c) : c.buf[n].path = p}) = 1
                    /\ \A n \in 1..count(c) :
                           c.buf[n].path = p => c.buf[n].mtime = lastSet[p].t
               ELSE ~Has(c, p)
        /\ count(c) = Cardinality({p \in Paths : lastSet[p].has})

C2_Witness ==
    /\ pure
    /\ call.op = "set"
    /\ call.had
    /\ count(c) = 2
    /\ \A p \in Paths : lastSet[p].has

\* C3: in every store reached by build_cache_load, build_cache_set and
\* build_cache_update, no two entries have the same path.
C3_NoDuplicatePaths ==
    \A m, n \in 1..count(c) : m # n => c.buf[m].path # c.buf[n].path

\* C4: build_cache_save followed by build_cache_load succeeds and gives the
\* same set of (path, timestamp) pairs as the store saved.
C4_SaveLoadRoundTrip ==
    [][(call.op = "save" /\ call.ret = 0 /\ call'.op = "load") =>
           (call'.ret = 0 /\ Pairs(c') = Pairs(c))]_vars

C6_LoadFailsOnlyOnMalformed ==
    call.op = "load" =>
        /\ (call.ret # 0) <=> (\E n \in 1..Len(FileLines) : ~HasBothQuotes(FileLines[n]))
        /\ ~call.over

\* C7: build_cache_update of a path that is not in the store, whatever the
\* modification time of the file, returns true and records the path; a second
\* build_cache_update right after it, the modification time unchanged, returns
\* false.
C7_FirstUpdateTrueThenFalse ==
    [][/\ (call'.op = "update" /\ ~call'.had /\ call'.fsok) =>
              (call'.ret = 1 /\ Has(c', call'.path))
       /\ (/\ call.op = "update" /\ ~call.had /\ call.fsok
           /\ call'.op = "update" /\ call'.path = call.path
           /\ call'.fsok /\ call'.arg = call.arg) =>
              call'.ret = 0]_vars

\* C8: build_cache_update leaves the store as it was when it returns false;
\* when it returns true, build_cache_get of the path is the modification time
\* the file has on disk and the entries of the other paths are unchanged.
C8_UpdateFrame ==
    [][call'.op = "update" =>
           /\ call'.ret = 0 => c' = c
           /\ call'.ret = 1 =>
                  /\ call'.fsok
                  /\ build_cache_get(c', call'.path) = call'.arg
                  /\ Others(c', call'.path) = Others(c, call'.path)]_vars

\* C9: when fs_time fails, the staleness check ends the process: neither
\* build_cache_update nor build_file answers or changes the store.
C9_StatFailureIsFatal ==
    [][/\ (call'.op = "update" /\ ~call'.fsok) => (pc' = "exit" /\ c' = c)
       /\ (/\ pc = "src"
           /\ DirHasNext(CurDir, ent_k)
           /\ fs_ext(CurEnt) = config.src_ext
           /\ Len(o_files) < O_FILES_MAX
           /\ build_file(c, config.bin, CurDir, CurEnt, rebuild_all).fatal) =>
              (pc' = "exit" /\ c' = c)]_vars

\* C10: in a build_app invocation, if some header of some configured directory
\* has a modification time that differs from its cached value, the compile
\* command is invoked for every source file of every configured directory.
C10_HeaderForcesAll ==
    (InBuildApp /\ pc = "done" /\ HeaderChanged) =>
        FilesWithExt(config.src_ext) \subseteq Compiled

\* C11: when the cache loaded from the cache file holds, for every header and
\* source of the configured directories, the modification time the file has
\* on disk and config.rebuild_all is false, build_app runs no compile command
\* and does not write the cache file.
C11_NoChangeNoWork ==
    (InBuildApp /\ ~ConfigRebuildAll /\ \A f \in Sources \cup Headers : Current(f)) =>
        (Compiled = {} /\ ~Saved)

\* exactly the source f has a modification time that differs from its cached
\* value, and no header has
OnlyChanged(f) ==
    /\ f \in Sources
    /\ build_cache_get(c0, f) # fs_time(f).mtime
    /\ \A g \in (Sources \cup Headers) \ {f} : build_cache_get(c0, g) = fs_time(g).mtime

\* the paths handed to a link command
Linked(n) == {log[n].objs[k] : k \in 1..Len(log[n].objs)}

\* C12: when exactly one source has a modification time that differs from its
\* cached value, no header changed and rebuild_all is false, build_app runs
\* the compile command for that source and for no other, sets its cache entry
\* to the new modification time, and runs one link command whose objects
\* include the object of every source of every configured directory.
C12_OnlyChangedCompiled ==
    \A f \in AppFiles :
        (InBuildApp /\ ~ConfigRebuildAll /\ OnlyChanged(f)) =>
            /\ Compiled \subseteq {f}
            /\ pc = "link" => (Compiled = {f} /\ build_cache_get(c, f) = fs_time(f).mtime)
            /\ pc = "done" =>
                   /\ Compiled = {f}
                   /\ Cardinality(Links) = 1
                   /\ \A n \in Links : Objects \subseteq Linked(n)

\* C13: when fs_dir_open of a configured directory fails, whatever the place
\* of the directory in config.srcs, build_app ends the process and no compile
\* command was run in the invocation.
C13_OpenFailureBeforeCompile ==
    [][(pc \in {"hdr_open", "src_open"} /\ pc' # "hdr" /\ pc' # "src") =>
           (pc' = "exit" /\ Compiled = {})]_vars

\* the commands of this invocation that exited with a status other than 0
Failed == {n \in 1..Len(log) : log[n].ev \in {"cc", "link"} /\ log[n].status # 0}

\* C14: when a compile or link command exits with a status other than 0, the
\* process is ended at once: that command is the last one of the invocation,
\* and no later directory is gone into.
C14_FailedCommandIsFatal ==
    /\ [](\A n \in Failed : n = Len(log) /\ pc = "exit")
    /\ [][(Failed # {} /\ log' # <<>> /\ log'[1] = log[1] /\ Len(log') > 1) =>
              (log' = log /\ src_i' = src_i /\ ent_k' = ent_k /\ pc' = "exit")]_vars

C14_Witness ==
    /\ InBuildApp
    /\ pc = "exit"
    /\ Failed = {Len(log)}
    /\ log[Len(log)].ev = "cc"
    /\ src_i < Len(config.srcs)
    /\ Len(Listing(config.srcs[src_i + 1])) > 0

\* C15: build_app runs the link command first and writes the cache file only
\* after it: no write of the cache file comes before a link command, and
\* when the link command fails the cache file was not written in the
\* invocation.
C15_LinkBeforeSave ==
    InBuildApp =>
        \A n \in Links :
            /\ \A m \in 1..(n - 1) : log[m].ev # "save"
            /\ log[n].status # 0 => ~Saved

\* C16: when the configured directories hold no source, build_app runs no
\* compile command and no link command and does not write the cache file,
\* also when the header check set header timestamps in the store; when it
\* returns it has logged "Nothing to rebuild".
C16_NoSourcesNothingDone ==
    (InBuildApp /\ Sources = {}) =>
        /\ Compiled = {}
        /\ Links = {}
        /\ \A n \in 1..Len(log) : log[n].ev # "save"
        /\ pc = "done" => log[Len(log)].ev = "nothing"

C16_Witness ==
    /\ InBuildApp
    /\ pc = "done"
    /\ Sources = {}
    /\ HeaderChanged
    /\ log[Len(log)].ev = "nothing"

\* build_cache_load fails on the cache file as it is
LoadFails == \E ub \in Undefined : build_cache_load(file, ub).ret # 0

\* C17: when build_cache_load fails, the entry point that called it, build_app
\* or build() of the build script, ends the process before any compile
\* command and before any write of the cache file: with a cache file that
\* does not load, an invocation is ended and has run nothing.
C17_CorruptCacheIsFatal ==
    (pc # "idle" /\ LoadFails) => (pc = "exit" /\ Len(log) = 1)

\* C18: when config.rebuild_all is true, build_app runs the compile command
\* for every source of every configured directory, whatever the cached and
\* the on-disk modification times, and sets the cache entry of each to its
\* modification time.
C18_RebuildAllCompilesAll ==
    (InBuildApp /\ ConfigRebuildAll /\ pc \in {"end", "link", "done"}) =>
        /\ Sources \subseteq Compiled
        /\ pc # "done" => \A f \in Sources : build_cache_get(c, f) = fs_time(f).mtime

\* the extension of a path: what follows its last '.', nothing without a '.'
Extension(path) ==
    IF \E n \in 1..Len(path) : path[n] = "."
    THEN LET d == CHOOSE n \in 1..Len(path) :
                      path[n] = "." /\ \A m \in (n + 1)..Len(path) : path[m] # "."
         IN  SubSeq(path, d + 1, Len(path))
    ELSE <<>>

\* the invocation is one of build_clean
InClean == log # <<>> /\ log[1].ev = "build_clean"

\* C19: build_clean on a directory that opens removes every entry of
\* extension "o" and no other entry, then deletes the cache file, whether an
\* object was found or not, so that the next build_app loads an empty store;
\* when the directory does not open it ends the process and the cache file
\* is not deleted.
C19_CleanRemovesObjects ==
    InClean =>
        /\ \A n \in 2..Len(log) : log[n].ev = "rm" => Extension(log[n].arg) = <<"o">>
        /\ pc = "done" =>
               /\ \A p \in DOMAIN disk : Extension(p) # <<"o">>
               /\ ~file.exists
               /\ \A ub \in Undefined : count(build_cache_load(file, ub).c) = 0
        /\ pc = "exit" => (Len(log) = 1 /\ file.exists)

\* the characters of a view
Content(sv) == SubSeq(sv.mem, 1, sv.len)

\* t is made of the last characters of s, position by position
IsSuffix(t, s) ==
    /\ Len(t) <= Len(s)
    /\ \A k \in 1..Len(t) : s[Len(s) - Len(t) + k] = t[k]

\* C20: sv_has_suffix(sv, suffix) is true exactly when suffix.len <= sv.len and
\* the last suffix.len characters of sv are those of suffix, position by
\* position; suffix is never read at an index that is not below suffix.len.
C20_HasSuffix ==
    call.op = "sv_has_suffix" =>
        /\ call.ret <=> IsSuffix(Content(call.arg), Content(call.sv))
        /\ ~call.over

\* C21: sv_is_equal(sv, to) is true exactly when sv.len = to.len and the two
\* views hold the same character at every index below that length; neither
\* view is read at an index that is not below its own len.
C21_IsEqual ==
    call.op = "sv_is_equal" =>
        /\ call.ret <=> (call.sv.len = call.arg.len /\ Content(call.sv) = Content(call.arg))
        /\ ~call.over

\* the characters of the C string chs
CharsOf(chs) == {chs[k] : k \in 1..Strlen(chs)}

\* the length of the longest prefix of s made of characters of set only
PrefixIn(s, set) ==
    CHOOSE n \in 0..Len(s) :
        /\ \A k \in 1..n : s[k] \in set
        /\ n < Len(s) => s[n + 1] \notin set

\* the length of the longest suffix of s made of characters of set only
SuffixIn(s, set) ==
    CHOOSE n \in 0..Len(s) :
        /\ \A k \in (Len(s) - n + 1)..Len(s) : s[k] \in set
        /\ n < Len(s) => s[Len(s) - n] \notin set

\* C22: sv_trim(sv, chs) is the view inside sv that is left when the longest
\* prefix and the longest suffix made of characters of chs are removed, the
\* empty view when every character is in chs; sv_trim of the result is the
\* result.
C22_Trim ==
    call.op = "sv_trim" =>
        LET s    == Content(call.sv)
            set  == CharsOf(call.arg)
            p    == PrefixIn(s, set)
            rest == SubSeq(s, p + 1, Len(s))
            q    == SuffixIn(rest, set)
        IN  /\ call.ret.len = Len(s) - p - q
            /\ call.ret.mem = SubSeq(call.sv.mem, p + 1, Len(call.sv.mem))
            /\ Content(call.ret) = SubSeq(s, p + 1, Len(s) - q)
            /\ call.again = call.ret

C22_Witness ==
    /\ call.op = "sv_trim"
    /\ call.sv.len = 3
    /\ call.ret.len = 1
    /\ call.ret.mem = Tail(call.sv.mem)
    /\ call.again = call.ret

\* every character of the view is in chs: the result is empty
C22_WitnessAll ==
    /\ call.op = "sv_trim"
    /\ call.sv.len = 2
    /\ call.ret.len = 0

\* C23: after darray_init with any element size and any number n of
\* successful darray_add calls, darray_at(d, i) for i < n is the address of a
\* copy of the i-th element added and for i >= n it is NULL; the allocation
\* holds at least count * elem_size bytes and no add wrote outside it.
C23_DarrayHoldsElements ==
    darr.buf = "live" =>
        /\ \A i \in 0..MaxAdds :
               IF i < Len(darr.added)
               THEN /\ darray_at(darr, i) = i * darr.elem_size
                    /\ i < Len(darr.cells)
                    /\ darr.cells[i + 1] = darr.added[i + 1]
               ELSE darray_at(darr, i) = "NULL"
        /\ Len(darr.cells) * darr.elem_size >= darr.count * darr.elem_size
        /\ ~darr.over

\* C25: sfree on a non-NULL pointer frees the block, sets the pointer to
\* NULL and returns 0, and on a NULL pointer returns non-zero and frees
\* nothing, so that no block is freed twice; srealloc returns non-zero on a
\* NULL pointer, and when realloc fails it frees the old block, leaves the
\* pointer NULL and returns non-zero.
C25_FreeOnce ==
    /\ ~heap.twice
    /\ call.op = "sfree" =>
           IF call.before.ptr # 0
           THEN /\ call.ret = 0
                /\ heap.ptr = 0
                /\ heap.live = call.before.live \ {call.before.ptr}
           ELSE /\ call.ret # 0
                /\ heap = call.before
    /\ call.op = "srealloc" =>
           /\ call.before.ptr = 0 => call.ret # 0 /\ heap = call.before
           /\ (call.before.ptr # 0 /\ call.out \in {"NULL", "freed"}) =>
                  /\ call.ret # 0
                  /\ heap.ptr = 0
                  /\ heap.live = call.before.live \ {call.before.ptr}

\* the type of the flag an argument names
FlagOf(arg) ==
    IF arg_is_flag_long(arg)
    THEN get_flag_by_long_name(SubSeq(arg, 3, 2 + NameLen(SubSeq(arg, 3, Len(arg)), 1)))
    ELSE get_flag_by_short_name(SubSeq(arg, 2, 1 + NameLen(SubSeq(arg, 2, Len(arg)), 1)))

\* a flag argument that takes the argument after it as its value
TakesNext(arg) ==
    /\ \A k \in 1..Len(arg) : arg[k] # "="
    /\ FlagOf(arg).type # "FLAG_BOOL"

\* the arguments from the k-th on that are neither flags nor values of flags
RECURSIVE Kept(_, _, _)
Kept(a, k, ended) ==
    IF k > Len(a) THEN <<>>
    ELSE IF ended THEN <<a[k]>> \o Kept(a, k + 1, TRUE)
    ELSE IF a[k] = <<"-", "-">> THEN Kept(a, k + 1, TRUE)
    ELSE IF Len(a[k]) > 0 /\ a[k][1] = "-"
    THEN Kept(a, IF TakesNext(a[k]) THEN k + 2 ELSE k + 1, FALSE)
    ELSE <<a[k]>> \o Kept(a, k + 1, FALSE)

\* C24: when args_parse_flags returns ARG_OK and stripped is not NULL,
\* stripped holds, in order, the arguments that are neither a flag nor the
\* value taken by a flag before them, without the first '--' and with all
\* that follows it; when it returns an error and where is not NULL, where is
\* the index of the flag argument that failed.
C24_StrippedAndWhere ==
    call.op = "args_parse_flags" =>
        /\ (call.ret = "ARG_OK" /\ ~call.stripped.null) =>
               call.stripped.v = Kept(call.a, 1, FALSE)
        /\ (call.ret # "ARG_OK" /\ ~call.where.null) =>
               /\ call.at >= 0
               /\ arg_is_flag(call.a[call.at + 1])
               /\ call.where.val = call.at

\* the headers for which the store written to the cache file holds another
\* modification time than the store the invocation loaded
NewHeaderTimes == {h \in Headers : build_cache_get(c, h) # build_cache_get(c0, h)}

\* C26: whenever a build_app invocation writes to the cache file a new
\* modification time for a header, every source file of every configured
\* directory was compiled in that invocation.
C26_NoFalseNegative ==
    (InBuildApp /\ pc = "link" /\ Saved /\ NewHeaderTimes # {}) =>
        Sources \subseteq Compiled

\* C27: when fs_dir_open succeeded, FOREACH_IN_DIR runs its body for every
\* entry of the directory: build_app leaves the enumeration of a directory
\* only after the last entry, or by ending the process.
C27_EveryEntryVisited ==
    [][(pc \in {"hdr", "src"} /\ pc' \notin {pc, "exit"}) =>
           ent_k > Len(Listing(CurDir))]_vars

\* a size the doubling of build_cache_add gives: 16 times a power of two
RECURSIVE SizeOk(_)
SizeOk(n) == n = INITIAL_SIZE \/ (n > INITIAL_SIZE /\ n % 2 = 0 /\ SizeOk(n \div 2))

\* C28: in every store reachable from build_cache_load by build_cache_set and
\* build_cache_update calls, count < size and size is 16 times a power of two;
\* the call that adds an entry doubles size exactly when the incremented
\* count reaches size, and the index of the new entry is below size.
C28_CountBelowSize ==
    /\ [](count(c) < c.size /\ SizeOk(c.size))
    /\ [][(call'.op \in {"set", "update"} /\ count(c') = count(c) + 1) =>
              /\ c'.size = IF count(c') = c.size THEN 2 * c.size ELSE c.size
              /\ count(c') - 1 < c'.size]_vars

\* a build_cache_set made the store grow from 16 to 32 entries
C28_Witness ==
    /\ call.op = "set"
    /\ ~call.had
    /\ count(c) = INITIAL_SIZE
    /\ c.size = 2 * INITIAL_SIZE

\* C29: build_app never records more than 128 object paths, and when the
\* configured directories hold more than 128 source files the invocation
\* neither writes the cache file nor runs the link command: it does not get
\* past its loop.
C29_AtMost128Objects ==
    /\ Len(o_files) <= O_FILES_MAX
    /\ (InBuildApp /\ Cardinality(Sources) > O_FILES_MAX) =>
           /\ pc \notin {"end", "link", "done"}
           /\ ~Saved
           /\ Links = {}

\* the modification time the cache file holds for f, as the next run loads it
Persisted(f, ub) == build_cache_get(build_cache_load(file, ub).c, f)

\* the compile commands of this invocation that succeeded, and the last event
CompiledOk == {log[n].arg : n \in {k \in 1..Len(log) : log[k].ev = "cc" /\ log[k].status = 0}}
LastEvent  == log[Len(log)]

\* C30: in build() of the build script the cache file is written after each
\* compile that succeeded: when the compile of a file fails, the cache file
\* does not hold the new modification time of that file, and it holds the
\* modification times of the files compiled before it in the same run.
C30_SaveAfterCompile ==
    (InScript /\ pc = "exit" /\ LastEvent.ev = "cc" /\ LastEvent.status # 0) =>
        \A ub \in Undefined :
            /\ Persisted(LastEvent.arg, ub) # fs_time(LastEvent.arg).mtime
            /\ \A g \in CompiledOk \ {LastEvent.arg} : Persisted(g, ub) = fs_time(g).mtime

====
